---- MODULE Spec2Model ----
(***************************************************************************)
(* Model of src/ppo/ppo_caps/core.py: the Beta policy actor, the value     *)
(* critic, the actor-critic module built from them, and discount_cumsum.   *)
(*                                                                         *)
(* Real numbers are exact rationals <<numerator, denominator>> with a      *)
(* positive denominator; the only finite-precision operation is exp inside *)
(* ELU, which is computed in fixed point with Scale units per 1 and so     *)
(* underflows to 0 for sufficiently negative arguments, as a float does.   *)
(* Tensors of shape (1,) are one-element sequences.                        *)
(***************************************************************************)
EXTENDS Integers, Sequences, FiniteSets, TLC

VARIABLES alpha_net, beta_net, v_net, pc, op, args, ret, calls, drawn

vars == <<alpha_net, beta_net, v_net, pc, op, args, ret, calls, drawn>>
params == <<alpha_net, beta_net, v_net>>

(* ------------------------------ bounds --------------------------------- *)

\* observations are the scalar features 1..NumObs
NumObs == 2
\* weights and biases of the policy networks range over -MaxW..MaxW
MaxW == 1
\* the weight of the value network ranges over 0..MaxV
MaxV == 1
\* a sample of a Beta distribution is one of k/SampleSteps, 0 < k < SampleSteps
SampleSteps == 4
\* fixed-point resolution of exp
Scale == 10
\* discount_cumsum: longest input vector, largest entry, discount grid
MaxLen == 3
MaxX == 1
MaxDisc == 3

(* ------------------------- exact arithmetic ---------------------------- *)

Rat(n, d) == <<n, d>>
RatEq(a, b) == a[1] * b[2] = b[1] * a[2]
RatLt(a, b) == a[1] * b[2] < b[1] * a[2]
RatAdd(a, b) == <<a[1] * b[2] + b[1] * a[2], a[2] * b[2]>>
RatNeg(a) == <<-a[1], a[2]>>
RatSub(a, b) == RatAdd(a, RatNeg(b))
RatMul(a, b) == <<a[1] * b[1], a[2] * b[2]>>
\* a / b for b > 0
RatDiv(a, b) == <<a[1] * b[2], a[2] * b[1]>>

RECURSIVE RatSum(_)
RatSum(s) ==
    IF Len(s) = 0 THEN Rat(0, 1)
    ELSE RatAdd(RatSum(SubSeq(s, 1, Len(s) - 1)), s[Len(s)])

Min(a, b) == IF a < b THEN a ELSE b

\* x[::-1]
Reverse(x) == [i \in 1..Len(x) |-> x[Len(x) + 1 - i]]

(* --------------------------- discount_cumsum --------------------------- *)

\* scipy.signal.lfilter(b, a, x) with a[0] = 1: the direct-form difference
\* equation  y[n] = sum_k b[k] x[n-k] - sum_{k>=1} a[k] y[n-k]
RECURSIVE lfilter(_, _, _)
lfilter(b, a, x) ==
    IF Len(x) = 0 THEN <<>>
    ELSE LET n == Len(x)
             y == lfilter(b, a, SubSeq(x, 1, n - 1))
             ff == RatSum([k \in 1..Min(Len(b), n) |-> RatMul(b[k], x[n - k + 1])])
             fb == RatSum([k \in 1..Min(Len(a) - 1, n - 1) |-> RatMul(a[k + 1], y[n - k])])
         IN  Append(y, RatSub(ff, fb))

discount_cumsum_noflip(x, discount) ==
    lfilter(<<Rat(1, 1)>>, <<Rat(1, 1), RatNeg(discount)>>, Reverse(x))

discount_cumsum(x, discount) ==
    Reverse(lfilter(<<Rat(1, 1)>>, <<Rat(1, 1), RatNeg(discount)>>, Reverse(x)))

XVals == {Rat(n, 1) : n \in -1..MaxX}
Discounts == {Rat(p, 2) : p \in -1..MaxDisc}
Vectors == UNION {[1..n -> XVals] : n \in 1..MaxLen}

(* ------------------------------ networks ------------------------------- *)

obs_dim == 1
act_dim == 1
hidden_sizes == <<>>

Obs == 1..NumObs

\* exp(-k) in fixed point: Scale * e^(-k), rounded down at every step
RECURSIVE ExpNeg(_)
ExpNeg(k) == IF k = 0 THEN Scale ELSE (ExpNeg(k - 1) * 368) \div 1000

\* nn.ELU: x for x > 0, exp(x) - 1 otherwise
ELU(x) == IF x > 0 THEN Rat(x, 1) ELSE Rat(ExpNeg(-x) - Scale, Scale)

\* nn.Identity
Identity(x) == Rat(x, 1)

Activation(name, x) ==
    CASE name = "ELU" -> ELU(x)
      [] name = "Identity" -> Identity(x)

\* the layers mlp builds: a Linear for every consecutive pair of sizes, followed
\* by activation, or by output_activation after the last one
mlp(sizes, activation, output_activation) ==
    [j \in 1..(Len(sizes) - 1) |->
        [in |-> sizes[j], out |-> sizes[j + 1],
         act |-> IF j < Len(sizes) - 1 THEN activation ELSE output_activation]]

\* nn.Linear(1, 1)
Linear(p, x) == p.weight * x + p.bias

\* nn.Sequential of the single Linear and activation that mlp builds when
\* hidden_sizes is empty; the result has shape (1,)
Sequential(layers, p, x) == <<Activation(layers[1].act, Linear(p, x))>>

AlphaLayers == mlp(<<obs_dim>> \o hidden_sizes \o <<act_dim>>, "Tanh", "ELU")
BetaLayers == mlp(<<obs_dim>> \o hidden_sizes \o <<act_dim>>, "Tanh", "ELU")
VLayers == mlp(<<obs_dim>> \o hidden_sizes \o <<1>>, "Tanh", "Identity")

PolicyParams == [weight : -MaxW..MaxW, bias : -MaxW..MaxW]
ValueParams == [weight : 0..MaxV, bias : {0, 1}]

\* Python's None: the empty tuple, distinct from every tensor and every term
None == <<>>

(* ------------------------------ tensors -------------------------------- *)

TAddScalar(t, c) == [i \in DOMAIN t |-> RatAdd(t[i], Rat(c, 1))]
TAdd(a, b) == [i \in DOMAIN a |-> RatAdd(a[i], b[i])]
TDiv(a, b) == [i \in DOMAIN a |-> RatDiv(a[i], b[i])]
TEq(a, b) == DOMAIN a = DOMAIN b /\ \A i \in DOMAIN a : RatEq(a[i], b[i])

\* torch.clamp(a, min, max)
clamp(a, min, max) ==
    [i \in DOMAIN a |->
        IF RatLt(a[i], Rat(min, 1)) THEN Rat(min, 1)
        ELSE IF RatLt(Rat(max, 1), a[i]) THEN Rat(max, 1)
        ELSE a[i]]

\* torch.squeeze(t, -1) of a tensor whose last dimension has size 1
squeeze(t) == t[1]

(* --------------------- torch.distributions.Beta ------------------------ *)

Beta(alpha, beta) ==
    [type |-> "Beta", concentration1 |-> alpha, concentration0 |-> beta]

\* Beta.mean
BetaMean(pi) ==
    TDiv(pi.concentration1, TAdd(pi.concentration1, pi.concentration0))

\* the argument constraint of Beta: both concentrations positive
BetaValid(pi) ==
    \A i \in DOMAIN pi.concentration1 :
        /\ RatLt(Rat(0, 1), pi.concentration1[i])
        /\ RatLt(Rat(0, 1), pi.concentration0[i])

\* the values pi.sample() can return: points of the open interval (0, 1)
Support(pi) ==
    [DOMAIN pi.concentration1 -> {Rat(k, SampleSteps) : k \in 1..(SampleSteps - 1)}]

\* Beta.log_prob, elementwise: the log-density of each value under its own pair
\* of concentrations, kept as a term
log_prob(pi, value) ==
    [i \in DOMAIN value |->
        [concentration1 |-> pi.concentration1[i],
         concentration0 |-> pi.concentration0[i],
         value |-> value[i]]]

\* Tensor.sum(axis=-1), kept as a term over the summands
sum(t) == <<"sum", t>>

(* ---------------------------- MLPBetaActor ----------------------------- *)

_distribution(obs) ==
    LET alpha == TAddScalar(Sequential(AlphaLayers, alpha_net, obs), 2)
        beta == TAddScalar(Sequential(BetaLayers, beta_net, obs), 2)
    IN  Beta(alpha, beta)

_mean_plus_one(obs) ==
    LET alpha == TAddScalar(Sequential(AlphaLayers, alpha_net, obs), 1)
        beta == TAddScalar(Sequential(BetaLayers, beta_net, obs), 2)
    IN  TDiv(alpha, TAdd(alpha, beta))

_mean(obs) ==
    LET alpha == TAddScalar(Sequential(AlphaLayers, alpha_net, obs), 2)
        beta == TAddScalar(Sequential(BetaLayers, beta_net, obs), 2)
    IN  TDiv(alpha, TAdd(alpha, beta))

_log_prob_from_distribution(pi, act) == sum(log_prob(pi, act))

(* -------------------------------- Actor -------------------------------- *)

forward_rebuild(obs, act) ==
    LET pi == _distribution(obs)
        logp_a == IF act # None
                  THEN _log_prob_from_distribution(_distribution(obs), act)
                  ELSE None
    IN  [ret |-> <<pi, logp_a>>,
         calls |-> <<"_distribution">> \o
                   (IF act # None
                    THEN <<"_distribution", "_log_prob_from_distribution">>
                    ELSE <<>>)]

\* the value returned and the methods called, in order
forward(obs, act) ==
    LET pi == _distribution(obs)
        logp_a == IF act # None THEN _log_prob_from_distribution(pi, act) ELSE None
    IN  [ret |-> <<pi, logp_a>>,
         calls |-> <<"_distribution">> \o
                   (IF act # None THEN <<"_log_prob_from_distribution">> ELSE <<>>)]

(* ------------------------------ MLPCritic ------------------------------ *)

v(obs) == squeeze(Sequential(VLayers, v_net, obs))

(* ---------------------------- MLPActorCritic --------------------------- *)

step_logp_of_mean(obs, eval, std_mu, s, nobs) ==
    IF eval
    THEN LET a0 == _mean(obs)
             a == clamp(a0, -1, 1)
         IN  [ret |-> a, calls |-> <<"_mean", "clamp">>,
              eval |-> eval, std_mu |-> std_mu, sample |-> None, noisy |-> None]
    ELSE LET pi == _distribution(obs)
             a == clamp(s, -1, 1)
             mu == _mean(obs)
             logp_a == _log_prob_from_distribution(pi, mu)
             mu_bar == IF std_mu > 0 THEN _mean(nobs) ELSE mu
         IN  [ret |-> <<a, v(obs), logp_a, mu, mu_bar>>,
              calls |-> <<"_distribution", "sample", "clamp",
                          "_log_prob_from_distribution", "_mean", "v">> \o
                        (IF std_mu > 0 THEN <<"normal", "_mean">> ELSE <<>>),
              eval |-> eval, std_mu |-> std_mu, sample |-> s,
              noisy |-> IF std_mu > 0 THEN nobs ELSE None]

\* s is the value pi.sample() returns and nobs the value torch.normal(obs, std_mu)
\* returns; the result holds the returned value, the methods called in order,
\* and the arguments and draws of the call
step(obs, eval, std_mu, s, nobs) ==
    IF eval
    THEN LET a0 == _mean(obs)
             a == clamp(a0, -1, 1)
         IN  [ret |-> a, calls |-> <<"_mean", "clamp">>,
              eval |-> eval, std_mu |-> std_mu, sample |-> None, noisy |-> None]
    ELSE LET pi == _distribution(obs)
             a == clamp(s, -1, 1)
             logp_a == _log_prob_from_distribution(pi, a)
             mu == _mean(obs)
             mu_bar == IF std_mu > 0 THEN _mean(nobs) ELSE mu
         IN  [ret |-> <<a, v(obs), logp_a, mu, mu_bar>>,
              calls |-> <<"_distribution", "sample", "clamp",
                          "_log_prob_from_distribution", "_mean", "v">> \o
                        (IF std_mu > 0 THEN <<"normal", "_mean">> ELSE <<>>),
              eval |-> eval, std_mu |-> std_mu, sample |-> s,
              noisy |-> IF std_mu > 0 THEN nobs ELSE None]

act_returns_mu(obs, s) ==
    LET r == step(obs, FALSE, -1, s, None)
    IN  [r EXCEPT !.ret = r.ret[4]]

\* step(obs)[0], with step's defaults eval=False, std_mu=-1. (no noise is drawn)
act(obs, s) ==
    LET r == step(obs, FALSE, -1, s, None)
    IN  [r EXCEPT !.ret = r.ret[1]]

StdMus == {-1, 0, 1}

(* ---------------------------- specification ---------------------------- *)

(* A behaviour is one call on a constructed MLPActorCritic: Init holds the  *)
(* parameters the constructor left and the pending call with its arguments, *)
(* and the action of the called method runs it to its return.  No method   *)
(* writes a parameter, so a later call starts from the same parameters.    *)

\* action tensors of shape (act_dim,)
Actions == [1..act_dim -> {Rat(k, SampleSteps) : k \in 1..(SampleSteps - 1)}]

Init ==
    /\ alpha_net \in PolicyParams
    /\ beta_net \in PolicyParams
    /\ v_net \in ValueParams
    /\ pc = "call"
    /\ \/ /\ op = "forward"
          /\ \E obs \in Obs, given \in BOOLEAN, a \in Actions :
                args = [obs |-> obs, act |-> IF given THEN a ELSE None]
       \/ /\ op = "step"
          /\ args \in [obs : Obs, eval : BOOLEAN, std_mu : StdMus]
       \/ /\ op = "act"
          /\ args \in [obs : Obs]
    /\ ret = None
    /\ calls = <<>>
    /\ drawn = None

Draws(r) == [eval |-> r.eval, std_mu |-> r.std_mu, sample |-> r.sample, noisy |-> r.noisy]

Forward ==
    /\ pc = "call"
    /\ op = "forward"
    /\ LET r == forward(args.obs, args.act)
       IN  /\ ret' = r.ret
           /\ calls' = r.calls
    /\ drawn' = None
    /\ pc' = "done"
    /\ UNCHANGED <<params, op, args>>

Step ==
    /\ pc = "call"
    /\ op = "step"
    /\ \E s \in (IF args.eval THEN {None} ELSE Support(_distribution(args.obs))) :
         \E nobs \in (IF ~args.eval /\ args.std_mu > 0 THEN Obs ELSE {None}) :
            LET r == step(args.obs, args.eval, args.std_mu, s, nobs)
            IN  /\ ret' = r.ret
                /\ calls' = r.calls
                /\ drawn' = Draws(r)
    /\ pc' = "done"
    /\ UNCHANGED <<params, op, args>>

Act ==
    /\ pc = "call"
    /\ op = "act"
    /\ \E s \in Support(_distribution(args.obs)) :
            LET r == act(args.obs, s)
            IN  /\ ret' = r.ret
                /\ calls' = r.calls
                /\ drawn' = Draws(r)
    /\ pc' = "done"
    /\ UNCHANGED <<params, op, args>>

Next == Forward \/ Step \/ Act

Spec == Init /\ [][Next]_vars

(* discount_cumsum is a module-level function: no network is constructed *)

InitDC ==
    /\ alpha_net = None
    /\ beta_net = None
    /\ v_net = None
    /\ pc = "call"
    /\ op = "discount_cumsum"
    /\ args \in [x : Vectors, discount : Discounts]
    /\ ret = None
    /\ calls = <<>>
    /\ drawn = None

DiscountCumsum ==
    /\ pc = "call"
    /\ op = "discount_cumsum"
    /\ ret' = discount_cumsum(args.x, args.discount)
    /\ calls' = <<"lfilter">>
    /\ pc' = "done"
    /\ UNCHANGED <<params, op, args, drawn>>

NextDC == DiscountCumsum

SpecDC == InitDC /\ [][NextDC]_vars

(* ------------------------------- claims -------------------------------- *)

Positions(seq, name) == {i \in 1..Len(seq) : seq[i] = name}

RECURSIVE RatPow(_, _)
RatPow(d, k) == IF k = 0 THEN Rat(1, 1) ELSE RatMul(d, RatPow(d, k - 1))

\* sum over k from i to Len(x) of discount^(k-i) * x[k]
DiscountedTail(x, discount, i) ==
    RatSum([j \in 1..(Len(x) - i + 1) |-> RatMul(RatPow(discount, j - 1), x[i + j - 1])])

\* C1: step with eval=False returns the five values (a, v, logp_a, mu, mu_bar);
\* a is the clamped sample of the distribution pi built from obs, pi is built
\* once and before sampling, and logp_a is the log-probability under that pi of
\* the clamped action that is returned.
C1_StepReturnsSampleAndItsLogProb ==
    (pc = "done" /\ op = "step" /\ ~args.eval) =>
        LET pi == _distribution(args.obs)
        IN  /\ Len(ret) = 5
            /\ drawn.sample \in Support(pi)
            /\ TEq(ret[1], clamp(drawn.sample, -1, 1))
            /\ ret[3] = _log_prob_from_distribution(pi, ret[1])
            /\ ret[2] = v(args.obs)
            /\ TEq(ret[4], _mean(args.obs))
            /\ TEq(ret[5], IF args.std_mu > 0 THEN _mean(drawn.noisy) ELSE ret[4])
            /\ Cardinality(Positions(calls, "_distribution")) = 1
            /\ SubSeq(calls, 1, 4) =
                 <<"_distribution", "sample", "clamp", "_log_prob_from_distribution">>

\* C1 witness: a sampling step has returned, with noise drawn at another
\* observation and a sampled action that differs from the mean action.
C1_Witness ==
    /\ pc = "done" /\ op = "step" /\ ~args.eval
    /\ args.std_mu > 0 /\ drawn.noisy # args.obs
    /\ _distribution(drawn.noisy) # _distribution(args.obs)
    /\ ~TEq(ret[1], ret[4])

\* C2: discount_cumsum(x, discount) has the length of x, out[i] is the sum over
\* k >= i of discount^(k-i) * x[k], the last entry is x's last entry and every
\* other entry is x[i] + discount * out[i+1].
C2_DiscountCumsumClosedForm ==
    (pc = "done" /\ op = "discount_cumsum") =>
        LET x == args.x
            n == Len(args.x)
        IN  /\ Len(ret) = n
            /\ \A i \in 1..n : RatEq(ret[i], DiscountedTail(x, args.discount, i))
            /\ RatEq(ret[n], x[n])
            /\ \A i \in 1..(n - 1) :
                 RatEq(ret[i], RatAdd(x[i], RatMul(args.discount, ret[i + 1])))

\* C2 witness: the docstring's case, x = [1, 1, 1] with discount 1/2, has
\* returned [7/4, 3/2, 1].
C2_Witness ==
    /\ pc = "done" /\ op = "discount_cumsum"
    /\ args.x = <<Rat(1, 1), Rat(1, 1), Rat(1, 1)>>
    /\ args.discount = Rat(1, 2)
    /\ RatEq(ret[1], Rat(7, 4)) /\ RatEq(ret[2], Rat(3, 2)) /\ RatEq(ret[3], Rat(1, 1))

\* C3: forward(obs, act) returns the pair (pi, logp_a) with pi the distribution
\* for obs; logp_a is None exactly when act is None, otherwise it is
\* _log_prob_from_distribution of the returned pi and act; _distribution is
\* called exactly once.
C3_ForwardPair ==
    (pc = "done" /\ op = "forward") =>
        /\ Len(ret) = 2
        /\ ret[1] = _distribution(args.obs)
        /\ (ret[2] = None) <=> (args.act = None)
        /\ (args.act # None) => ret[2] = _log_prob_from_distribution(ret[1], args.act)
        /\ Cardinality(Positions(calls, "_distribution")) = 1

\* C3 witness: forward has returned for a call that was given actions.
C3_Witness ==
    /\ pc = "done" /\ op = "forward"
    /\ args.act # None
    /\ ret[2] # None

\* C4: act(obs) runs the sampling branch of step with eval=False and
\* std_mu=-1 (no noise is drawn) and returns the clamped sampled action alone,
\* a tensor of shape (act_dim,) and not the tuple of five.
C4_ActReturnsSampledAction ==
    (pc = "done" /\ op = "act") =>
        /\ drawn.eval = FALSE
        /\ drawn.std_mu = -1
        /\ drawn.noisy = None
        /\ drawn.sample \in Support(_distribution(args.obs))
        /\ DOMAIN ret = 1..act_dim
        /\ TEq(ret, clamp(drawn.sample, -1, 1))
        /\ calls = <<"_distribution", "sample", "clamp",
                     "_log_prob_from_distribution", "_mean", "v">>

\* C4 witness: act has returned an action that is not the mean action.
C4_Witness ==
    /\ pc = "done" /\ op = "act"
    /\ ~TEq(ret, _mean(args.obs))

\* the ELU output layers of both networks yield values above -1 at obs
EluAboveMinusOne(obs) ==
    /\ \A i \in 1..act_dim : RatLt(Rat(-1, 1), Sequential(AlphaLayers, alpha_net, obs)[i])
    /\ \A i \in 1..act_dim : RatLt(Rat(-1, 1), Sequential(BetaLayers, beta_net, obs)[i])

\* C5: at every observation where both ELU output layers yield values above -1,
\* both concentrations of _distribution(obs) exceed 1, the Beta is valid, and
\* _mean(obs) is alpha/(alpha+beta) of those same concentrations, which is the
\* distribution's mean and lies strictly between 0 and 1.
C5_BetaConcentrationsAndMean ==
    (pc \in {"call", "done"} /\ op # "discount_cumsum") =>
        \A obs \in Obs :
            EluAboveMinusOne(obs) =>
                LET pi == _distribution(obs)
                    m == _mean(obs)
                IN  /\ \A i \in 1..act_dim :
                          /\ RatLt(Rat(1, 1), pi.concentration1[i])
                          /\ RatLt(Rat(1, 1), pi.concentration0[i])
                    /\ BetaValid(pi)
                    /\ TEq(m, TDiv(pi.concentration1,
                                   TAdd(pi.concentration1, pi.concentration0)))
                    /\ TEq(m, BetaMean(pi))
                    /\ \A i \in 1..act_dim :
                          RatLt(Rat(0, 1), m[i]) /\ RatLt(m[i], Rat(1, 1))

\* C5 witness: an evaluation step has returned the mean at an observation where
\* the alpha network's ELU is in its exponential branch and above -1, and the
\* two concentrations differ.
C5_Witness ==
    /\ pc = "done" /\ op = "step" /\ args.eval
    /\ EluAboveMinusOne(args.obs)
    /\ Linear(alpha_net, args.obs) < 0
    /\ _distribution(args.obs).concentration1 # _distribution(args.obs).concentration0
    /\ TEq(ret, _mean(args.obs))

====
